---- MODULE Spec2Model ----
(***************************************************************************)
(* Beelzebub client: the process lifecycle watch engine.                   *)
(*                                                                         *)
(*   Spec   the main loop of client/src/main.rs (two notification feeds,   *)
(*          the watch table, the submission client) running concurrently   *)
(*          with the configuration reload thread and a wall clock.         *)
(*   RSpec  Process::get_display_name of client/src/win.rs applied to a    *)
(*          bounded set of version-information blocks.                     *)
(***************************************************************************)
EXTENDS Integers, Sequences, FiniteSets, TLC

VARIABLES
    config,         \* the value inside Arc<RwLock<Config>>
    lock,           \* state of the RwLock: "free", "read" or "write"
    wpc,            \* position of the notify callback (reload thread)
    new_config,     \* the Config the callback loaded and is about to store
    nReloads,       \* change notifications delivered so far
    snapshots,      \* history: every complete Config that was ever installed
    notified,       \* history: how the last notification callback began
    stream_start,   \* start notifications delivered by the OS, not yet polled
    stream_end,     \* end notifications delivered by the OS, not yet polled
    startClosed,    \* the start feed will yield nothing more
    endClosed,      \* the end feed will yield nothing more
    nEvents,        \* notifications emitted so far, both feeds together
    living,         \* history: the process ids whose last notification emitted
                    \* is a start, i.e. whose process has not ended
    pc,             \* position of the main loop
    event,          \* the event the running handler was called with
    watch,          \* handle_process_end: the Watch removed from the table
    duration_seconds, \* handle_process_end: watch.start.elapsed().as_secs()
    minimum_duration, \* handle_process_end: the threshold read from config
    process_watch,  \* ProcessWatchMap
    now,            \* the monotonic clock, in ticks
    attempts,       \* history: the calls of submit, in order
    sent,           \* history: the HTTP requests sent, in order
    returned,       \* history: how the last handler call returned
    admitted,       \* history: the process ids of the admitted starts, in order
    r_in,           \* RSpec: the resolver's input
    r_out,          \* RSpec: the resolver's output
    m_in,           \* MSpec: the path and the monitor list given to is_monitored
    m_out,          \* MSpec: the result of is_monitored
    n_in,           \* NSpec: the string given to clean_name
    n_out,          \* NSpec: the result of clean_name
    s_secret,       \* server: config.secret
    processes,      \* server: the rows of table processes, in insertion order
    events,         \* server: the rows of table events, in insertion order
    handler         \* server: the state of each call of submit

vars == << config, lock, wpc, new_config, nReloads, snapshots, notified,
           stream_start,
           stream_end, startClosed, endClosed, nEvents, living, pc, event,
           watch, duration_seconds, minimum_duration, process_watch, now,
           attempts, sent, returned, admitted, r_in, r_out, m_in, m_out,
           n_in, n_out, s_secret, processes, events, handler >>

(***************************************************************************)
(* Bounds of the model.                                                    *)
(***************************************************************************)
MaxTime == 2          \* the clock stops after this many ticks
TicksPerSec == 2      \* resolution of the clock: ticks in one second
MaxEvents == 3        \* notifications the OS emits, both feeds together
MaxReloads == 1       \* configuration change notifications
MaxTable == 2         \* declared pairs in a translation table
MaxNamed == 2         \* pairs of one block whose ProductName query succeeds
MaxPath == 3          \* characters of the path given to is_monitored
MaxWatched == 2       \* characters of a configured WatchedPath
MaxName == 4          \* characters of the string given to clean_name
I64Bits == 24         \* width at which the i64 arithmetic of the collector is
                      \* modelled (64 in the program)

(***************************************************************************)
(* Option<T>: None is the empty sequence, Some(x) the one-element one.     *)
(***************************************************************************)
None == << >>
Some(x) == << x >>
IsSome(o) == o # None
Unwrap(o) == o[1]

Range(s) == { s[i] : i \in DOMAIN s }

(***************************************************************************)
(* Display name resolver (client/src/win.rs).                              *)
(*                                                                         *)
(* A version-information block is a record                                 *)
(*   size     GetFileVersionInfoSizeW's result is non-zero                 *)
(*   fetched  GetFileVersionInfoW succeeds                                 *)
(*   hasTable VerQueryValueW(\VarFileInfo\Translation) succeeds            *)
(*   table    the declared (language, code-page) pairs                     *)
(*   strings  pair -> None when the ProductName query fails, else          *)
(*            Some(s), s the UTF-16 units of the value, terminator         *)
(*            included, so that Len(s) is the length the query reports     *)
(***************************************************************************)
FALLBACK_LANG_CODES ==
    << <<1033, 1252>>, <<1033, 1200>>, <<0, 1252>>,
       <<1033, 0>>, <<0, 0>>, <<0, 1200>> >>

\* size_of::<(u16, u16)>(): the translation query reports its length in bytes
PairBytes == 4

DeclPairs == { <<1041, 1200>>, <<1033, 1200>> }
StrayPairs == { <<2057, 1252>>, <<0, 1200>> }
AllPairs == Range(FALLBACK_LANG_CODES) \cup DeclPairs \cup StrayPairs

\* String::from_utf16_lossy on units that form no surrogate pair
from_utf16_lossy(units) ==
    [ i \in DOMAIN units |->
        IF units[i] >= 55296 /\ units[i] <= 57343 THEN 65533 ELSE units[i] ]

\* Result<String, ()>: None is Err(()), Some(s) is Ok(s)
read_product_name(info, lang_code_page) ==
    LET q == info.strings[lang_code_page] IN
    IF ~IsSome(q) THEN None
    ELSE LET product_name_length == Len(Unwrap(q)) IN
         IF product_name_length = 0 THEN None
         ELSE Some(from_utf16_lossy(
                     SubSeq(Unwrap(q), 1, product_name_length - 1)))

\* one `for lang_code_page in ...` loop: the first Ok returns; `tried` is the
\* history of the lookups performed
RECURSIVE TryPairs(_, _, _)
TryPairs(info, pairs, tried) ==
    IF pairs = << >> THEN [name |-> None, lookups |-> tried]
    ELSE LET r == read_product_name(info, Head(pairs)) IN
         IF IsSome(r)
         THEN [name |-> r, lookups |-> Append(tried, Head(pairs))]
         ELSE TryPairs(info, Tail(pairs), Append(tried, Head(pairs)))

\* lang_code_pages_length as the translation query reports it
TableLength(info) == PairBytes * Len(info.table)

\* slice::from_raw_parts::<(u16, u16)>(ptr, lang_code_pages_length): a slice of
\* `length` ELEMENTS starting at the table; `beyond` is whatever the memory
\* after the table holds when read as pairs
LangCodePages(info, beyond) ==
    SubSeq(info.table \o beyond, 1, TableLength(info))

get_display_name(executable_path, info, beyond) ==
    IF ~IsSome(executable_path) THEN [name |-> None, lookups |-> << >>]
    ELSE IF ~info.size THEN [name |-> None, lookups |-> << >>]
    ELSE IF ~info.fetched THEN [name |-> None, lookups |-> << >>]
    ELSE IF ~info.hasTable THEN [name |-> None, lookups |-> << >>]
    ELSE IF TableLength(info) = 0 THEN [name |-> None, lookups |-> << >>]
    ELSE LET first == TryPairs(info, LangCodePages(info, beyond), << >>) IN
         IF IsSome(first.name) THEN first
         ELSE TryPairs(info, FALLBACK_LANG_CODES, first.lookups)

\* the pairs whose ProductName query may succeed in the blocks considered
NamedCandidates ==
    { <<1041, 1200>>, <<1033, 1200>>, <<1033, 1252>>, <<2057, 1252>>,
      <<0, 1200>> }

\* the value stored under a pair: no characters at all, the terminator alone,
\* or one character (distinct per pair) and the terminator
PairChar(p) ==
    CHOOSE i \in 1..Len(FALLBACK_LANG_CODES) + 2 :
        \/ i <= Len(FALLBACK_LANG_CODES) /\ FALLBACK_LANG_CODES[i] = p
        \/ i = Len(FALLBACK_LANG_CODES) + 1 /\ p = <<1041, 1200>>
        \/ i = Len(FALLBACK_LANG_CODES) + 2 /\ p = <<2057, 1252>>
StoredValue(p, kind) ==
    CASE kind = "zero" -> << >>
      [] kind = "empty" -> << 0 >>
      [] kind = "name" -> << 64 + PairChar(p), 0 >>

StringTables ==
    UNION { { [ p \in AllPairs |->
                  IF p \in named THEN Some(StoredValue(p, kind[p])) ELSE None ]
              : kind \in [named -> {"zero", "empty", "name"}] }
            : named \in { n \in SUBSET NamedCandidates :
                              Cardinality(n) <= MaxNamed } }

Tables == UNION { [1..n -> DeclPairs] : n \in 0..MaxTable }

\* the blocks considered: fetched with a translation table; fetched with no
\* translation table (the strings may still be there); not fetched at all
NoStrings == [p \in AllPairs |-> None]
VersionInfos ==
    { [size |-> TRUE, fetched |-> TRUE, hasTable |-> TRUE,
       table |-> t, strings |-> s] : t \in Tables, s \in StringTables }
    \cup
    { [size |-> TRUE, fetched |-> TRUE, hasTable |-> FALSE,
       table |-> << >>, strings |-> s] : s \in StringTables }
    \cup
    { [size |-> f, fetched |-> FALSE, hasTable |-> FALSE,
       table |-> << >>, strings |-> NoStrings] : f \in BOOLEAN }

\* what the memory after a table of this block may hold
Beyond(info) == [1..(TableLength(info) - Len(info.table)) -> StrayPairs]

(***************************************************************************)
(* Configuration store (client/src/config.rs).                             *)
(*                                                                         *)
(* A path is the sequence of its components.  A URL text is the sequence   *)
(* of its parts: scheme, host, then the segments of its path.              *)
(***************************************************************************)
PathGame == << "C:", "Games", "app.exe" >>
PathOther == << "C:", "Other", "app.exe" >>

UrlHost == << "http", "host" >>
UrlApi == << "http", "host", "api" >>
UrlBad == << "host" >>

\* the secrets of the configuration files, as code points: "k1", "k2" and
\* "k" followed by a-umlaut
SecretK1 == << 107, 49 >>
SecretK2 == << 107, 50 >>
SecretUmlaut == << 107, 228 >>

Configs ==
    { [minimum_duration |-> 1, monitor |-> << << "C:", "Games" >> >>,
       url |-> UrlApi, secret |-> Some(SecretK1)],
      [minimum_duration |-> 0,
       monitor |-> << << "C:", "Other" >>, << "C:", "Games", "app.exe" >> >>,
       url |-> UrlBad, secret |-> None] }

\* A path as text is a sequence of characters; Sep is the separator.
Sep == "\\"
PathChars == { "a", "b", Sep }

\* the texts of at most n characters; a text that opens with two separators
\* (a UNC prefix) is left out
PathTexts(n) ==
    { t \in UNION { [1..k -> PathChars] : k \in 0..n } :
          ~(Len(t) >= 2 /\ t[1] = Sep /\ t[2] = Sep) }

\* Path::components on what follows the root: the non-empty pieces between
\* separators (repeated and trailing separators are dropped)
RECURSIVE NormalComponents(_, _, _)
NormalComponents(text, piece, done) ==
    IF text = << >>
    THEN IF piece = << >> THEN done ELSE Append(done, piece)
    ELSE IF Head(text) = Sep
    THEN NormalComponents(Tail(text), << >>,
                          IF piece = << >> THEN done ELSE Append(done, piece))
    ELSE NormalComponents(Tail(text), Append(piece, Head(text)), done)

\* Path::new / PathBuf::from followed by components(): a leading separator
\* is the root component
Components(text) ==
    (IF text # << >> /\ Head(text) = Sep THEN << << Sep >> >> ELSE << >>)
        \o NormalComponents(text, << >>, << >>)

\* the text of a component sequence
RECURSIVE JoinComponents(_)
JoinComponents(path) ==
    IF path = << >> THEN << >>
    ELSE IF Len(path) = 1 THEN Head(path)
    ELSE IF Head(path) = << Sep >> THEN Head(path) \o JoinComponents(Tail(path))
    ELSE Head(path) \o << Sep >> \o JoinComponents(Tail(path))

\* starts_with as str::starts_with on the texts: a prefix may end inside a
\* component
starts_with_Raw(path, base) ==
    /\ Len(JoinComponents(base)) <= Len(JoinComponents(path))
    /\ SubSeq(JoinComponents(path), 1, Len(JoinComponents(base)))
           = JoinComponents(base)

\* Path::starts_with: whole components of `base` are a prefix of those of `path`
starts_with(path, base) ==
    /\ Len(base) <= Len(path)
    /\ SubSeq(path, 1, Len(base)) = base

\* is_monitored that finds every path monitored
is_monitored_Always(cfg, path) == TRUE

is_monitored(cfg, path) ==
    \E i \in DOMAIN cfg.monitor : starts_with(path, cfg.monitor[i])

(***************************************************************************)
(* Submission client: URL handling (client/src/main.rs, submit).           *)
(***************************************************************************)
\* Url::parse: a text without a scheme is a relative URL without a base
UrlParse(text) ==
    IF Len(text) >= 2 /\ text[1] \in {"http", "https"}
    THEN Some([scheme |-> text[1], host |-> text[2],
               path |-> SubSeq(text, 3, Len(text))])
    ELSE None

\* Url::join("/submit"): a reference with an absolute path replaces the path
UrlJoinSubmit(url) == Some([url EXCEPT !.path = << "submit" >>])

\* Url::parse(&config.url).and_then(|u| u.join("/submit"))
SubmitUrl(text) ==
    IF IsSome(UrlParse(text)) THEN UrlJoinSubmit(Unwrap(UrlParse(text)))
    ELSE None

\* Result<Response, reqwest::Error> of request.send(): Some(status) is a
\* response, None a request that got no response
Responses == { Some(201), Some(401), Some(500), Some(404), None }

\* what submit logs about a request it sent
LogLines == { "network_error", "created", "server_error", "unauthorized",
              "unknown" }

\* the arm of `match request.send().await` taken
ResponseArm(r) ==
    IF ~IsSome(r) THEN "network_error"
    ELSE CASE Unwrap(r) = 201 -> "created"
           [] Unwrap(r) = 500 -> "server_error"
           [] Unwrap(r) = 401 -> "unauthorized"
           [] OTHER -> "unknown"

(***************************************************************************)
(* Events, watches and the watch table (client/src/main.rs, win.rs).       *)
(***************************************************************************)
Pids == { 100, 200 }

Executables ==
    { [name |-> "app.exe", executable_path |-> Some(PathGame)],
      [name |-> "other.exe", executable_path |-> Some(PathOther)],
      [name |-> "System", executable_path |-> None] }

\* a feed item: Err(WMIError) or Ok(event)
ErrItem == [ok |-> FALSE]
StartItems ==
    { ErrItem } \cup
    { [ok |-> TRUE,
       target_instance |-> [process_id |-> p, name |-> e.name,
                            executable_path |-> e.executable_path]]
      : p \in Pids, e \in Executables }
\* handle_process_end reads nothing of the instance but its process id
EndItems ==
    { ErrItem } \cup
    { [ok |-> TRUE, target_instance |-> [process_id |-> p]] : p \in Pids }

\* the version information of the files on disk
NoInfo ==
    [size |-> FALSE, fetched |-> FALSE, hasTable |-> FALSE, table |-> << >>,
     strings |-> NoStrings]
GameInfo ==
    [size |-> TRUE, fetched |-> TRUE, hasTable |-> TRUE,
     table |-> << <<1041, 1200>> >>,
     strings |-> [p \in AllPairs |->
                    IF p = <<1041, 1200>> THEN Some(StoredValue(p, "name"))
                    ELSE None]]
\* the file at a path: app.exe carries a product name, the others no block
OnDisk(path) == IF path = PathGame THEN GameInfo ELSE NoInfo

\* Duration::as_secs of a span of ticks
as_secs(ticks) == ticks \div TicksPerSec

\* MeetsMinimum with the comparison off by one: a session as long as the
\* threshold is skipped
MeetsMinimum_Strict(duration, minimum) == duration > minimum

\* duration_seconds < minimum_duration.into() does not hold
MeetsMinimum(duration, minimum) == ~(duration < minimum)

\* Watch::new; sid is history, the ordinal of the admission that made the Watch
NewWatch(process, name, instant, sid) ==
    [start |-> instant, executable |-> process.name, name |-> name,
     sid |-> sid]

\* MapInsert as entry(pid).or_insert(w): an entry already there is kept
MapInsert_KeepsOld(map, pid, w) ==
    [ p \in DOMAIN map \cup {pid} |-> IF p \in DOMAIN map THEN map[p] ELSE w ]

\* HashMap::insert
MapInsert(map, pid, w) ==
    [ p \in DOMAIN map \cup {pid} |-> IF p = pid THEN w ELSE map[p] ]

\* MapRemove that leaves the entry in the map, as HashMap::get would
MapRemove_Keeps(map, pid) == map

\* HashMap::remove, the map it leaves
MapRemove(map, pid) == [ p \in DOMAIN map \ {pid} |-> map[p] ]

NoEvent == [ok |-> FALSE]
NoWatch == [start |-> 0, executable |-> "", name |-> None, sid |-> 0]

\* MapTake that yields an empty Watch for a key the map does not hold
MapTake_OrDefault(map, pid) ==
    IF pid \in DOMAIN map THEN Some(map[pid]) ELSE Some(NoWatch)

\* HashMap::remove, the Option<Watch> it returns
MapTake(map, pid) == IF pid \in DOMAIN map THEN Some(map[pid]) ELSE None


(***************************************************************************)
(* The collector (server/src/main.rs, util.rs).                            *)
(*                                                                         *)
(* A string is the sequence of its characters' code points; 0 is NUL.      *)
(***************************************************************************)
\* clean_name that drops every NUL and keeps the rest
RECURSIVE clean_name_Strip(_)
clean_name_Strip(value) ==
    IF value = << >> THEN << >>
    ELSE IF Head(value) = 0 THEN clean_name_Strip(Tail(value))
    ELSE << Head(value) >> \o clean_name_Strip(Tail(value))

\* value.split('\0').next().unwrap_or(value): the piece before the first NUL
clean_name(value) ==
    LET nuls == { i \in DOMAIN value : value[i] = 0 } IN
    IF nuls = {} THEN value
    ELSE SubSeq(value, 1, (CHOOSE i \in nuls : \A j \in nuls : i <= j) - 1)

NameChars == { 0, 65, 66 }
Names == UNION { [1..k -> NameChars] : k \in 0..MaxName }

\* Config.secret of the client and of the collector
ClientSecrets ==
    { None, Some(SecretK1), Some(SecretK2), Some(SecretUmlaut) }
ServerSecrets == { None, Some(SecretK1), Some(SecretUmlaut) }

\* String::as_bytes: the UTF-8 encoding, for code points below 0x800
RECURSIVE as_bytes(_)
as_bytes(text) ==
    IF text = << >> THEN << >>
    ELSE LET c == Head(text) IN
         (IF c < 128 THEN << c >>
          ELSE << 192 + (c \div 64), 128 + (c % 64) >>)
         \o as_bytes(Tail(text))

\* HeaderValue::from_bytes: bytes 32..255 but 127, and the tab, are
\* accepted; anything else is an error (None)
from_bytes(bytes) ==
    IF \A i \in DOMAIN bytes :
           (bytes[i] >= 32 /\ bytes[i] # 127) \/ bytes[i] = 9
    THEN Some(bytes) ELSE None

\* HeaderValue::to_str: the value as a str when every byte is visible ASCII
\* or a tab, an error (None) otherwise
to_str(value) ==
    IF \A i \in DOMAIN value :
           (value[i] >= 32 /\ value[i] < 127) \/ value[i] = 9
    THEN Some(value) ELSE None

\* request.header("X-Secret-Key", secret) of the client's submit: the
\* X-Secret-Key header of the request built from a snapshot with this
\* secret, None when it sets none
ClientHeader(secret) ==
    IF IsSome(secret) THEN from_bytes(as_bytes(Unwrap(secret))) ELSE None

\* the value of the X-Secret-Key header of the requests that arrive: None
\* when the header is missing
HeaderValues == { ClientHeader(c) : c \in ClientSecrets }

\* config.read() cannot fail: nothing ever writes the collector's
\* configuration, so the lock is never poisoned; x_secret_key == secret
\* compares the bytes of the two strings
is_authenticated(headers, secret) ==
    IF ~IsSome(secret) THEN TRUE
    ELSE IF ~IsSome(headers) THEN FALSE
    ELSE IF ~IsSome(to_str(Unwrap(headers))) THEN FALSE
    ELSE Unwrap(to_str(Unwrap(headers))) = as_bytes(Unwrap(secret))

\* i64 at the width of the model
I64Max == 2 ^ (I64Bits - 1) - 1
WrapI64(x) == ((x + 2 ^ (I64Bits - 1)) % 2 ^ I64Bits) - 2 ^ (I64Bits - 1)
\* the factor of `payload.duration as i64 * 1_000_000`
MicrosPerSec == 1000000
\* a duration whose product with MicrosPerSec does not fit an i64
DurationOver == (I64Max \div MicrosPerSec) + 1

\* PgInterval::from_microseconds(payload.duration as i64 * 1_000_000): the
\* outcomes a build can produce.  None is a panic (overflow checks on); with
\* the checks off the product wraps
Intervals(duration) ==
    IF WrapI64(duration) * MicrosPerSec \in -I64Max - 1..I64Max
    THEN { Some(WrapI64(duration) * MicrosPerSec) }
    ELSE { None, Some(WrapI64(WrapI64(duration) * MicrosPerSec)) }

\* shared::Submission as the collector receives it
Payloads ==
    { [duration |-> d, executable |-> "app.exe", name |-> n]
      : d \in { 1, DurationOver },
        n \in { None, Some(<< 65 >>), Some(<< 65, 0, 66 >>) } }

\* the calls of submit in progress
Reqs == { 1, 2 }

NoPayload == [duration |-> 0, executable |-> "", name |-> None]
\* db and rows are history: the database operations the call attempted, and
\* the rows of events it inserted
IdleHandler ==
    [pc |-> "idle", headers |-> None, payload |-> NoPayload,
     process_id |-> None, status |-> 0, db |-> << >>, rows |-> << >>]

\* let process_name = payload.name.as_ref().map(|s| util::clean_name(s))
ProcessName(payload) ==
    IF IsSome(payload.name) THEN Some(clean_name(Unwrap(payload.name)))
    ELSE None

\* the ids the query of get_process selects: executable = $1 and
\* name = $2, or name IS NULL
MatchingIds(table, payload) ==
    { table[i].id : i \in { j \in DOMAIN table :
          /\ table[j].executable = payload.executable
          /\ table[j].name = ProcessName(payload) } }

\* the unique index on (executable, name) that the UniqueViolation arm
\* expects: rows whose name is NULL never conflict
Conflicts(table, payload) ==
    /\ IsSome(ProcessName(payload))
    /\ MatchingIds(table, payload) # {}

ServerIdle ==
    /\ s_secret = None
    /\ processes = << >>
    /\ events = << >>
    /\ handler = [r \in Reqs |-> IdleHandler]

(***************************************************************************)
(* Initial state: main has loaded the configuration, installed the file    *)
(* watcher, created both streams and an empty ProcessWatchMap.             *)
(***************************************************************************)
MainInit ==
    /\ config \in Configs
    /\ lock = "free"
    /\ wpc = "idle"
    /\ new_config = config
    /\ nReloads = 0
    /\ snapshots = {config}
    /\ notified = "none"
    /\ stream_start = << >>
    /\ stream_end = << >>
    /\ startClosed = FALSE
    /\ endClosed = FALSE
    /\ nEvents = 0
    /\ living = {}
    /\ pc = "select"
    /\ event = NoEvent
    /\ watch = NoWatch
    /\ duration_seconds = 0
    /\ minimum_duration = 0
    /\ process_watch = << >>
    /\ now = 0
    /\ attempts = << >>
    /\ sent = << >>
    /\ returned = "none"
    /\ admitted = << >>

\* nothing is given to the functions the other specifications apply
ResolverIdle ==
    /\ r_in = [executable_path |-> None, info |-> NoInfo, beyond |-> << >>]
    /\ r_out = None
MonitorIdle ==
    /\ m_in = [path |-> << >>, monitor |-> << >>]
    /\ m_out = None
NameIdle ==
    /\ n_in = << >>
    /\ n_out = None

Init ==
    /\ MainInit
    /\ ResolverIdle
    /\ MonitorIdle
    /\ NameIdle
    /\ ServerIdle

mainVars == << pc, event, watch, duration_seconds, minimum_duration,
               process_watch, attempts, sent, returned, admitted >>
feedVars == << stream_start, stream_end, startClosed, endClosed, nEvents,
               living >>
storeVars == << config, lock >>
reloadVars == << wpc, new_config, nReloads, snapshots, notified >>
resolverVars == << r_in, r_out >>
monitorVars == << m_in, m_out >>
nameVars == << n_in, n_out >>
serverVars == << s_secret, processes, events, handler >>

Running == pc # "exited"

(***************************************************************************)
(* The environment: the OS feeds and the clock.                            *)
(***************************************************************************)
EmitStart ==
    /\ Running /\ ~startClosed
    /\ nEvents < MaxEvents
    /\ \E item \in StartItems :
         /\ stream_start' = Append(stream_start, item)
         /\ living' = IF item.ok
                       THEN living \cup {item.target_instance.process_id}
                       ELSE living
    /\ nEvents' = nEvents + 1
    /\ UNCHANGED << stream_end, startClosed, endClosed, now >>
    /\ UNCHANGED << mainVars, storeVars, reloadVars, resolverVars, monitorVars, nameVars,
                 serverVars >>

EmitEnd ==
    /\ Running /\ ~endClosed
    /\ nEvents < MaxEvents
    /\ \E item \in EndItems :
         /\ stream_end' = Append(stream_end, item)
         /\ living' = IF item.ok
                       THEN living \ {item.target_instance.process_id}
                       ELSE living
    /\ nEvents' = nEvents + 1
    /\ UNCHANGED << stream_start, startClosed, endClosed, now >>
    /\ UNCHANGED << mainVars, storeVars, reloadVars, resolverVars, monitorVars, nameVars,
                 serverVars >>

CloseStart ==
    /\ Running /\ ~startClosed
    /\ startClosed' = TRUE
    /\ UNCHANGED << stream_start, stream_end, endClosed, nEvents, living, now >>
    /\ UNCHANGED << mainVars, storeVars, reloadVars, resolverVars, monitorVars, nameVars,
                 serverVars >>

CloseEnd ==
    /\ Running /\ ~endClosed
    /\ endClosed' = TRUE
    /\ UNCHANGED << stream_start, stream_end, startClosed, nEvents, living,
                    now >>
    /\ UNCHANGED << mainVars, storeVars, reloadVars, resolverVars, monitorVars, nameVars,
                 serverVars >>

Tick ==
    /\ Running /\ now < MaxTime
    /\ now' = now + 1
    /\ UNCHANGED << mainVars, feedVars, storeVars, reloadVars, resolverVars, monitorVars, nameVars,
                 serverVars >>

(***************************************************************************)
(* The reload thread: the callback given to notify::recommended_watcher.   *)
(***************************************************************************)
\* res is Err(e): a warning
NotifyError ==
    /\ Running /\ wpc = "idle" /\ nReloads < MaxReloads
    /\ nReloads' = nReloads + 1
    /\ notified' = "error"
    /\ UNCHANGED << wpc, new_config, snapshots, now >>
    /\ UNCHANGED << mainVars, feedVars, storeVars, resolverVars, monitorVars, nameVars,
                 serverVars >>

\* NotifyLoadFails that goes on with an empty configuration in place of the
\* one that could not be loaded
NotifyLoadFails_StoresEmpty ==
    /\ Running /\ wpc = "idle" /\ nReloads < MaxReloads
    /\ nReloads' = nReloads + 1
    /\ notified' = "load_failed"
    /\ new_config' = [minimum_duration |-> 0, monitor |-> << >>,
                      url |-> UrlBad, secret |-> None]
    /\ wpc' = "write"
    /\ UNCHANGED << snapshots, now >>
    /\ UNCHANGED << mainVars, feedVars, storeVars, resolverVars, monitorVars, nameVars,
                 serverVars >>

\* res is Ok(event) and Config::load fails: nothing is done
NotifyLoadFails ==
    /\ Running /\ wpc = "idle" /\ nReloads < MaxReloads
    /\ nReloads' = nReloads + 1
    /\ notified' = "load_failed"
    /\ UNCHANGED << wpc, new_config, snapshots, now >>
    /\ UNCHANGED << mainVars, feedVars, storeVars, resolverVars, monitorVars, nameVars,
                 serverVars >>

\* res is Ok(event) and Config::load yields new_config
NotifyLoaded ==
    /\ Running /\ wpc = "idle" /\ nReloads < MaxReloads
    /\ nReloads' = nReloads + 1
    /\ \E c \in Configs : new_config' = c
    /\ wpc' = "write"
    /\ notified' = "loaded"
    /\ UNCHANGED << snapshots, now >>
    /\ UNCHANGED << mainVars, feedVars, storeVars, resolverVars, monitorVars, nameVars,
                 serverVars >>

\* w_config.write(): granted when no guard is out
WriteLock ==
    /\ Running /\ wpc = "write"
    /\ lock = "free"
    /\ lock' = "write"
    /\ wpc' = "store"
    /\ UNCHANGED << config, new_config, nReloads, snapshots, notified, now >>
    /\ UNCHANGED << mainVars, feedVars, resolverVars, monitorVars, nameVars,
                 serverVars >>

\* *config_write = new_config moves the value in field by field: the first
\* fields ...
StoreFirst ==
    /\ Running /\ wpc = "store"
    /\ config' = [config EXCEPT
                     !.minimum_duration = new_config.minimum_duration,
                     !.monitor = new_config.monitor]
    /\ wpc' = "stored"
    /\ UNCHANGED << lock, new_config, nReloads, snapshots, notified, now >>
    /\ UNCHANGED << mainVars, feedVars, resolverVars, monitorVars, nameVars,
                 serverVars >>

\* StoreRest that also empties the watch table, as if the table belonged to
\* the configuration that is replaced
StoreRest_ClearsTable ==
    /\ Running /\ wpc = "stored"
    /\ config' = [config EXCEPT
                     !.url = new_config.url,
                     !.secret = new_config.secret]
    /\ snapshots' = snapshots \cup {new_config}
    /\ lock' = "free"
    /\ wpc' = "idle"
    /\ process_watch' = << >>
    /\ UNCHANGED << new_config, nReloads, notified, now >>
    /\ UNCHANGED << pc, event, watch, duration_seconds, minimum_duration,
                    attempts, sent, returned, admitted >>
    /\ UNCHANGED << feedVars, resolverVars, monitorVars, nameVars,
                 serverVars >>

\* ... and the rest; the write guard is dropped at the end of the block
StoreRest ==
    /\ Running /\ wpc = "stored"
    /\ config' = [config EXCEPT
                     !.url = new_config.url,
                     !.secret = new_config.secret]
    /\ snapshots' = snapshots \cup {new_config}
    /\ lock' = "free"
    /\ wpc' = "idle"
    /\ UNCHANGED << new_config, nReloads, notified, now >>
    /\ UNCHANGED << mainVars, feedVars, resolverVars, monitorVars, nameVars,
                 serverVars >>

(***************************************************************************)
(* The main loop: tokio::select! over the two streams.                     *)
(***************************************************************************)
\* GuardInSubmit with the guard dropped once the threshold is read
GuardInSubmit_Dropped == "free"

\* the lock while submit runs: `config`, the read guard taken at line 106,
\* is borrowed by submit and lives to the end of handle_process_end
GuardInSubmit == "read"

\* AfterFeedError that leaves the loop
AfterFeedError_Breaks == "exited"

\* where the loop is after an Err item: the handler has returned
AfterFeedError == "select"

Exhausted(stream, closed) == closed /\ stream = << >>

\* Some(event) = stream_start.next() => handle_process_start(...): the match
\* on the event, the let-else on the path
PollStart ==
    /\ pc = "select" /\ stream_start # << >>
    /\ stream_start' = Tail(stream_start)
    /\ LET item == Head(stream_start) IN
       IF ~item.ok
       THEN returned' = "start_error" /\ pc' = AfterFeedError /\ UNCHANGED event
       ELSE IF ~IsSome(item.target_instance.executable_path)
       THEN returned' = "start_no_path" /\ UNCHANGED << pc, event >>
       ELSE pc' = "start_read" /\ event' = item /\ UNCHANGED returned
    /\ UNCHANGED << watch, duration_seconds, minimum_duration, process_watch,
                    attempts, sent, admitted >>
    /\ UNCHANGED << stream_end, startClosed, endClosed, nEvents, living, now >>
    /\ UNCHANGED << storeVars, reloadVars, resolverVars, monitorVars, nameVars,
                 serverVars >>

\* config.read().unwrap() and the is_monitored test; the guard lives to the
\* end of the function
StartRead ==
    /\ pc = "start_read"
    /\ lock # "write"
    /\ IF is_monitored(config, Unwrap(event.target_instance.executable_path))
       THEN /\ pc' = "start_watch" /\ lock' = "read"
            /\ UNCHANGED << event, returned >>
       ELSE /\ pc' = "select" /\ lock' = "free"
            /\ event' = NoEvent /\ returned' = "start_unmonitored"
    /\ UNCHANGED << watch, duration_seconds, minimum_duration,
                    process_watch, attempts, sent, admitted >>
    /\ UNCHANGED << config, now >>
    /\ UNCHANGED << feedVars, reloadVars, resolverVars, monitorVars, nameVars,
                 serverVars >>

\* Watch::new (the display name, then Instant::now()) and map.insert, with
\* the read guard still out; the guard is dropped on return
StartWatch ==
    /\ pc = "start_watch"
    /\ \E beyond \in Beyond(OnDisk(Unwrap(event.target_instance.executable_path))) :
         LET process == event.target_instance
             info == OnDisk(Unwrap(process.executable_path))
             name == get_display_name(process.executable_path, info,
                                      beyond).name
         IN process_watch' =
                MapInsert(process_watch, process.process_id,
                          NewWatch(process, name, now, Len(admitted) + 1))
    /\ admitted' = Append(admitted, event.target_instance.process_id)
    /\ lock' = "free"
    /\ pc' = "select"
    /\ event' = NoEvent
    /\ returned' = "start_admitted"
    /\ UNCHANGED << watch, duration_seconds, minimum_duration,
                    attempts, sent >>
    /\ UNCHANGED << config, now >>
    /\ UNCHANGED << feedVars, reloadVars, resolverVars, monitorVars, nameVars,
                 serverVars >>

\* handle_process_end returns: its locals are gone
Return(how) ==
    /\ returned' = how
    /\ event' = NoEvent
    /\ watch' = NoWatch
    /\ duration_seconds' = 0
    /\ minimum_duration' = 0

\* Some(event) = stream_end.next() => handle_process_end(...): the match on
\* the event, map.remove, watch.start.elapsed().as_secs()
PollEnd ==
    /\ pc = "select" /\ stream_end # << >>
    /\ stream_end' = Tail(stream_end)
    /\ LET item == Head(stream_end) IN
       IF ~item.ok
       THEN /\ returned' = "end_error"
            /\ pc' = AfterFeedError
            /\ UNCHANGED << event, watch, duration_seconds, process_watch >>
       ELSE IF ~IsSome(MapTake(process_watch, item.target_instance.process_id))
       THEN /\ returned' = "end_absent"
            /\ UNCHANGED << pc, event, watch, duration_seconds, process_watch >>
       ELSE LET removed ==
                  Unwrap(MapTake(process_watch,
                                 item.target_instance.process_id)) IN
            /\ process_watch' =
                   MapRemove(process_watch, item.target_instance.process_id)
            /\ watch' = removed
            /\ duration_seconds' = as_secs(now - removed.start)
            /\ event' = item
            /\ pc' = "end_read"
            /\ UNCHANGED returned
    /\ UNCHANGED << minimum_duration, attempts, sent, admitted >>
    /\ UNCHANGED << stream_start, startClosed, endClosed, nEvents, living,
                    now >>
    /\ UNCHANGED << storeVars, reloadVars, resolverVars, monitorVars, nameVars,
                 serverVars >>

\* config.read().unwrap(), the threshold test, and the call of submit with
\* the guard still out
EndRead ==
    /\ pc = "end_read"
    /\ lock # "write"
    /\ IF MeetsMinimum(duration_seconds, config.minimum_duration)
       THEN /\ pc' = "submit" /\ lock' = GuardInSubmit
            /\ minimum_duration' = config.minimum_duration
            /\ UNCHANGED << event, watch, duration_seconds, returned >>
       ELSE /\ pc' = "select" /\ lock' = "free"
            /\ Return("end_short")
    /\ UNCHANGED << process_watch, attempts, sent, admitted >>
    /\ UNCHANGED << config, now >>
    /\ UNCHANGED << feedVars, reloadVars, resolverVars, monitorVars, nameVars,
                 serverVars >>

\* the FinishedSession handed to submit
Submission == [duration |-> duration_seconds, executable |-> watch.executable,
               name |-> watch.name]

\* submit up to request.send(): the URL, the body, the header
Submit ==
    /\ pc = "submit"
    /\ LET url == SubmitUrl(config.url) IN
       /\ attempts' = Append(attempts,
              [sid |-> watch.sid, submission |-> Submission,
               minimum_duration |-> minimum_duration, url |-> config.url,
               secret |-> IF IsSome(url) THEN Some(config.secret) ELSE None])
       /\ IF IsSome(url)
          THEN /\ sent' = Append(sent,
                      [attempt |-> Len(attempts) + 1, url |-> Unwrap(url),
                       json |-> Submission, secret |-> config.secret])
               /\ pc' = "send"
               /\ UNCHANGED lock
               /\ UNCHANGED << event, watch, duration_seconds,
                               minimum_duration, returned >>
          ELSE /\ lock' = "free"
               /\ pc' = "select"
               /\ Return("end_bad_url")
               /\ UNCHANGED sent
    /\ UNCHANGED << process_watch, admitted >>
    /\ UNCHANGED << config, now >>
    /\ UNCHANGED << feedVars, reloadVars, resolverVars, monitorVars, nameVars,
                 serverVars >>

\* Response that sends the request again after a 500
Response_Retries(r) ==
    /\ pc = "send"
    /\ ResponseArm(r) \in LogLines
    /\ IF r = Some(500)
       THEN /\ pc' = "submit"
            /\ UNCHANGED << lock, event, watch, duration_seconds,
                            minimum_duration, returned >>
       ELSE /\ pc' = "select"
            /\ lock' = "free"
            /\ Return("end_response")
    /\ UNCHANGED << process_watch, attempts, sent, admitted >>
    /\ UNCHANGED << config, now >>
    /\ UNCHANGED << feedVars, reloadVars, resolverVars, monitorVars, nameVars,
                 serverVars >>

\* request.send().await completes and the match on it; submit and the
\* handler return, dropping the read guard
Response(r) ==
    /\ pc = "send"
    /\ ResponseArm(r) \in LogLines
    /\ lock' = "free"
    /\ pc' = "select"
    /\ Return("end_response")
    /\ UNCHANGED << process_watch, attempts, sent, admitted >>
    /\ UNCHANGED << config, now >>
    /\ UNCHANGED << feedVars, reloadVars, resolverVars, monitorVars, nameVars,
                 serverVars >>

\* SelectElse taken as soon as one of the streams has ended
SelectElse_Either ==
    /\ pc = "select"
    /\ Exhausted(stream_start, startClosed)
           \/ Exhausted(stream_end, endClosed)
    /\ pc' = "exited"
    /\ UNCHANGED << event, watch, duration_seconds, minimum_duration,
                    process_watch, attempts, sent, returned, admitted >>
    /\ UNCHANGED now
    /\ UNCHANGED << feedVars, storeVars, reloadVars, resolverVars, monitorVars, nameVars,
                 serverVars >>

\* else => break: every branch of the select! saw its stream end
SelectElse ==
    /\ pc = "select"
    /\ Exhausted(stream_start, startClosed)
    /\ Exhausted(stream_end, endClosed)
    /\ pc' = "exited"
    /\ UNCHANGED << event, watch, duration_seconds, minimum_duration,
                    process_watch, attempts, sent, returned, admitted >>
    /\ UNCHANGED now
    /\ UNCHANGED << feedVars, storeVars, reloadVars, resolverVars, monitorVars, nameVars,
                 serverVars >>

Next ==
    \/ EmitStart \/ EmitEnd \/ CloseStart \/ CloseEnd \/ Tick
    \/ NotifyError \/ NotifyLoadFails \/ NotifyLoaded
    \/ WriteLock \/ StoreFirst \/ StoreRest
    \/ PollStart \/ StartRead \/ StartWatch
    \/ PollEnd \/ EndRead \/ Submit
    \/ \E r \in Responses : Response(r)
    \/ SelectElse

Spec == Init /\ [][Next]_vars

\* a step of the main task: the select!, a handler, or submit up to the
\* point where the request is sent
MainLoop ==
    \/ PollStart \/ StartRead \/ StartWatch
    \/ PollEnd \/ EndRead \/ Submit
    \/ SelectElse

\* FairSpec: the runs of Spec in which the configuration file is left alone
\* (main loaded a configuration whose URL parses; the reload thread is never
\* notified), with the scheduling the runtime gives: the main task is run
\* whenever it can take a step.  Nothing obliges the collector to answer,
\* and reqwest::Client::new() sets no timeout, so the step that ends
\* request.send().await is not among the fair ones.
FairInit == Init /\ IsSome(SubmitUrl(config.url))

FairNext ==
    \/ EmitStart \/ EmitEnd \/ CloseStart \/ CloseEnd \/ Tick
    \/ PollStart \/ StartRead \/ StartWatch
    \/ PollEnd \/ EndRead \/ Submit
    \/ \E r \in Responses : Response(r)
    \/ SelectElse

FairSpec == FairInit /\ [][FairNext]_vars /\ WF_vars(MainLoop)

(***************************************************************************)
(* RSpec: get_display_name applied once to a block drawn from              *)
(* VersionInfos, with every content of the memory after its table.         *)
(***************************************************************************)
RInit ==
    /\ MainInit
    /\ config.minimum_duration = 1
    /\ \/ \E i \in VersionInfos : \E b \in Beyond(i) :
            r_in = [executable_path |-> Some(PathGame), info |-> i,
                    beyond |-> b]
       \/ \E b \in Beyond(GameInfo) :
            r_in = [executable_path |-> None, info |-> GameInfo, beyond |-> b]
    /\ r_out = None
    /\ MonitorIdle
    /\ NameIdle
    /\ ServerIdle

Resolve ==
    /\ r_out = None
    /\ r_out' = Some(get_display_name(r_in.executable_path, r_in.info,
                                      r_in.beyond))
    /\ UNCHANGED << r_in, now >>
    /\ UNCHANGED << mainVars, feedVars, storeVars, reloadVars, monitorVars,
                    nameVars, serverVars >>

RNext == Resolve

RSpec == RInit /\ [][RNext]_vars

(***************************************************************************)
(* MSpec: Config::is_monitored applied once to a path and a monitor list,  *)
(* both given as text.                                                     *)
(***************************************************************************)
MonitorLists ==
    { << >> } \cup { << w >> : w \in PathTexts(MaxWatched) }
        \cup { << v, w >> : v \in PathTexts(MaxWatched),
                            w \in PathTexts(MaxWatched) }

MInit ==
    /\ MainInit
    /\ config.minimum_duration = 1
    /\ ResolverIdle
    /\ \E t \in PathTexts(MaxPath) : \E l \in MonitorLists :
           m_in = [path |-> t, monitor |-> l]
    /\ m_out = None
    /\ NameIdle
    /\ ServerIdle

\* config.is_monitored(Path::new(path)), the monitor list being PathBufs
Monitor ==
    /\ m_out = None
    /\ m_out' = Some(is_monitored(
                        [monitor |-> [i \in DOMAIN m_in.monitor |->
                                          Components(m_in.monitor[i])]],
                        Components(m_in.path)))
    /\ UNCHANGED << m_in, now >>
    /\ UNCHANGED << mainVars, feedVars, storeVars, reloadVars, resolverVars,
                    nameVars, serverVars >>

MNext == Monitor

MSpec == MInit /\ [][MNext]_vars

(***************************************************************************)
(* NSpec: util::clean_name applied once to a string.                       *)
(***************************************************************************)
NInit ==
    /\ MainInit
    /\ config.minimum_duration = 1
    /\ ResolverIdle
    /\ MonitorIdle
    /\ n_in \in Names
    /\ n_out = None
    /\ ServerIdle

CleanName ==
    /\ n_out = None
    /\ n_out' = Some(clean_name(n_in))
    /\ UNCHANGED << n_in, now >>
    /\ UNCHANGED << mainVars, feedVars, storeVars, reloadVars, resolverVars,
                    monitorVars, serverVars >>

\* the result is given to clean_name again, as get_process would find it in
\* a payload
CleanAgain ==
    /\ IsSome(n_out) /\ Unwrap(n_out) # n_in
    /\ n_in' = Unwrap(n_out)
    /\ n_out' = None
    /\ UNCHANGED now
    /\ UNCHANGED << mainVars, feedVars, storeVars, reloadVars, resolverVars,
                    monitorVars, serverVars >>

NNext == CleanName \/ CleanAgain

NSpec == NInit /\ [][NNext]_vars

(***************************************************************************)
(* SSpec: the collector's POST /submit handler, two calls in progress at   *)
(* most, each database statement a step of its own.                        *)
(***************************************************************************)
SInit ==
    /\ MainInit
    /\ config.minimum_duration = 1
    /\ ResolverIdle
    /\ MonitorIdle
    /\ NameIdle
    /\ s_secret \in ServerSecrets
    /\ processes = << >>
    /\ events = << >>
    /\ handler = [r \in Reqs |-> IdleHandler]

clientVars == << mainVars, feedVars, storeVars, reloadVars, resolverVars,
                 monitorVars, nameVars, now >>

\* the handler answers: the call is over
Answer(r, h, code) ==
    handler' = [handler EXCEPT ![r] = [h EXCEPT !.pc = "done",
                                                !.status = code]]

\* axum calls submit with the headers and the JSON body of a request
SArrive(r) ==
    /\ handler[r].pc = "idle"
    /\ \E hv \in HeaderValues, pl \in Payloads :
         handler' = [handler EXCEPT ![r] =
                        [@ EXCEPT !.pc = "auth", !.headers = hv,
                                  !.payload = pl]]
    /\ UNCHANGED << s_secret, processes, events >>
    /\ UNCHANGED clientVars

\* if !is_authenticated(..) { return (UNAUTHORIZED, ..) }
SAuth(r) ==
    /\ handler[r].pc = "auth"
    /\ IF is_authenticated(handler[r].headers, s_secret)
       THEN handler' = [handler EXCEPT ![r].pc = "pool"]
       ELSE Answer(r, handler[r], 401)
    /\ UNCHANGED << s_secret, processes, events >>
    /\ UNCHANGED clientVars

\* state.pool.get().await
SPool(r, ok) ==
    /\ handler[r].pc = "pool"
    /\ LET h == [handler[r] EXCEPT !.db = Append(@, "pool")] IN
       IF ok THEN handler' = [handler EXCEPT ![r] = [h EXCEPT !.pc = "select"]]
       ELSE Answer(r, h, 500)
    /\ UNCHANGED << s_secret, processes, events >>
    /\ UNCHANGED clientVars

\* get_process, the first query: a row found is returned; no row or a failed
\* query goes on to the insert
SSelect(r, ok) ==
    /\ handler[r].pc = "select"
    /\ LET h == [handler[r] EXCEPT !.db = Append(@, "select")]
           found == MatchingIds(processes, h.payload)
       IN IF ok /\ found # {}
          THEN \E id \in found :
                 handler' = [handler EXCEPT ![r] =
                                [h EXCEPT !.pc = "event",
                                          !.process_id = Some(id)]]
          ELSE handler' = [handler EXCEPT ![r] = [h EXCEPT !.pc = "insert"]]
    /\ UNCHANGED << s_secret, processes, events >>
    /\ UNCHANGED clientVars

\* get_process, insert_into(processes) .. returning(id): Ok, a
\* UniqueViolation, or another error
SInsertProcess(r, outcome) ==
    /\ handler[r].pc = "insert"
    /\ LET h == [handler[r] EXCEPT !.db = Append(@, "insert")] IN
       CASE outcome = "ok" ->
              /\ ~Conflicts(processes, h.payload)
              /\ processes' = Append(processes,
                     [id |-> Len(processes) + 1,
                      executable |-> h.payload.executable,
                      name |-> ProcessName(h.payload)])
              /\ handler' = [handler EXCEPT ![r] =
                     [h EXCEPT !.pc = "event",
                               !.process_id = Some(Len(processes) + 1)]]
         [] outcome = "unique" ->
              /\ Conflicts(processes, h.payload)
              /\ handler' = [handler EXCEPT ![r] = [h EXCEPT !.pc = "reselect"]]
              /\ UNCHANGED processes
         [] outcome = "error" ->
              /\ Answer(r, h, 500)
              /\ UNCHANGED processes
    /\ UNCHANGED << s_secret, events >>
    /\ UNCHANGED clientVars

\* get_process, the query of the UniqueViolation arm: results[0], or Err
SReselect(r, ok) ==
    /\ handler[r].pc = "reselect"
    /\ LET h == [handler[r] EXCEPT !.db = Append(@, "reselect")]
           found == MatchingIds(processes, h.payload)
       IN IF ok /\ found # {}
          THEN \E id \in found :
                 handler' = [handler EXCEPT ![r] =
                                [h EXCEPT !.pc = "event",
                                          !.process_id = Some(id)]]
          ELSE Answer(r, h, 500)
    /\ UNCHANGED << s_secret, processes, events >>
    /\ UNCHANGED clientVars

\* the interval, insert_into(events), and the answer: a panic in the closure
\* or a failed insert is Err for interact's caller
SInsertEvent(r, ok) ==
    /\ handler[r].pc = "event"
    /\ \E interval \in Intervals(handler[r].payload.duration) :
         IF ~IsSome(interval)
         THEN Answer(r, handler[r], 500) /\ UNCHANGED events
         ELSE LET h == [handler[r] EXCEPT !.db = Append(@, "event")] IN
              IF ok
              THEN /\ events' = Append(events,
                          [process |-> Unwrap(h.process_id),
                           duration |-> Unwrap(interval)])
                   /\ Answer(r, [h EXCEPT !.rows = Append(@, Len(events) + 1)],
                             201)
              ELSE Answer(r, h, 500) /\ UNCHANGED events
    /\ UNCHANGED << s_secret, processes >>
    /\ UNCHANGED clientVars

SNext ==
    \E r \in Reqs :
        \/ SArrive(r)
        \/ SAuth(r)
        \/ \E ok \in BOOLEAN : SPool(r, ok)
        \/ \E ok \in BOOLEAN : SSelect(r, ok)
        \/ \E outcome \in { "ok", "unique", "error" } :
               SInsertProcess(r, outcome)
        \/ \E ok \in BOOLEAN : SReselect(r, ok)
        \/ \E ok \in BOOLEAN : SInsertEvent(r, ok)

SSpec == SInit /\ [][SNext]_vars

(***************************************************************************)
(* Properties.                                                             *)
(***************************************************************************)
\* the feed item a step of the main loop takes, if it takes one
StartTaken == pc = "select" /\ Len(stream_start') < Len(stream_start)
EndTaken == pc = "select" /\ Len(stream_end') < Len(stream_end)

\* C1: an end event whose process id has a Watch yields duration = (time of
\* handling - Watch.start) in whole seconds, rounded down; below the
\* threshold of the current snapshot submit is not called, at or above it
\* submit is called once, with that duration and the Watch's executable and
\* display name.
C1_EndComputesDurationAndSubmits ==
    [][ /\ (EndTaken /\ pc' = "end_read") =>
              LET w == process_watch[Head(stream_end).target_instance.process_id]
              IN /\ watch' = w
                 /\ duration_seconds' * TicksPerSec <= now - w.start
                 /\ now - w.start < (duration_seconds' + 1) * TicksPerSec
        /\ (EndTaken /\ Head(stream_end).ok
              /\ Head(stream_end).target_instance.process_id
                     \in DOMAIN process_watch) => pc' = "end_read"
        /\ (pc = "end_read" /\ pc' # "end_read") =>
              IF duration_seconds < config.minimum_duration
              THEN pc' = "select" /\ attempts' = attempts /\ sent' = sent
              ELSE /\ pc' = "submit"
                   /\ watch' = watch /\ duration_seconds' = duration_seconds
        /\ (pc = "submit" /\ pc' # "submit") =>
              /\ Len(attempts') = Len(attempts) + 1
              /\ SubSeq(attempts', 1, Len(attempts)) = attempts
              /\ attempts'[Len(attempts')].submission =
                     [duration |-> duration_seconds,
                      executable |-> watch.executable, name |-> watch.name]
        /\ (pc # "submit" \/ pc' = "submit") => attempts' = attempts
        /\ (pc # "submit" /\ pc' = "submit") => pc = "end_read"
      ]_vars

\* a session of one second was submitted under a threshold of one second,
\* with its display name
C1_Witness ==
    /\ Len(attempts) = 1
    /\ attempts[1].submission.duration = 1
    /\ attempts[1].minimum_duration = 1
    /\ attempts[1].submission.executable = "app.exe"
    /\ IsSome(attempts[1].submission.name)

\* the path lies under a WatchedPath of the snapshot, component by component
UnderWatchedPath(cfg, path) ==
    \E i \in 1..Len(cfg.monitor) :
        /\ Len(cfg.monitor[i]) <= Len(path)
        /\ \A k \in 1..Len(cfg.monitor[i]) : path[k] = cfg.monitor[i][k]

\* C2: a start event with a path the current snapshot monitors is admitted,
\* and leaves the table with one entry for its process id, holding the
\* event's executable name and the time of handling; an entry the table
\* already had for that id is replaced and the table does not grow; no other
\* entry changes.
C2_MonitoredStartInsertsOrOverwrites ==
    [][ /\ (StartTaken /\ Head(stream_start).ok
              /\ IsSome(Head(stream_start).target_instance.executable_path))
              => pc' = "start_read" /\ event' = Head(stream_start)
        /\ (pc = "start_read" /\ pc' # "start_read"
              /\ UnderWatchedPath(config,
                     Unwrap(event.target_instance.executable_path)))
              => pc' = "start_watch" /\ event' = event
        /\ (pc = "start_watch" /\ pc' # "start_watch") =>
              LET pid == event.target_instance.process_id IN
              /\ DOMAIN process_watch' = DOMAIN process_watch \cup {pid}
              /\ process_watch'[pid].executable = event.target_instance.name
              /\ process_watch'[pid].start = now
              /\ \A q \in DOMAIN process_watch \ {pid} :
                     process_watch'[q] = process_watch[q]
              /\ (pid \in DOMAIN process_watch =>
                     Cardinality(DOMAIN process_watch')
                         = Cardinality(DOMAIN process_watch))
      ]_vars

\* a second start event with the same process id replaced a Watch that had
\* another start time and another executable
C2_Witness ==
    /\ Len(admitted) = 2 /\ admitted[1] = admitted[2]
    /\ DOMAIN process_watch = {admitted[1]}
    /\ process_watch[admitted[1]].sid = 2
    /\ process_watch[admitted[1]].start = 2
    /\ process_watch[admitted[1]].executable = "other.exe"

\* C3: a start event with no executable path, or with a path the snapshot
\* current at handling does not monitor, leaves the watch table as it was;
\* an end event for a process id that was never admitted changes nothing.
C3_UnadmittedStartLeavesTable ==
    [][ /\ (StartTaken /\ Head(stream_start).ok
              /\ ~IsSome(Head(stream_start).target_instance.executable_path))
              => /\ process_watch' = process_watch
                 /\ pc' = "select"
        /\ (pc = "start_read" /\ pc' # "start_read"
              /\ ~UnderWatchedPath(config,
                      Unwrap(event.target_instance.executable_path)))
              => /\ process_watch' = process_watch
                 /\ pc' = "select"
        /\ (StartTaken \/ pc = "start_read")
              => process_watch' = process_watch /\ admitted' = admitted
        /\ (EndTaken /\ Head(stream_end).ok
              /\ \A k \in 1..Len(admitted) :
                     admitted[k] # Head(stream_end).target_instance.process_id)
              => /\ UNCHANGED << process_watch, config, lock, attempts, sent >>
                 /\ pc' = "select"
      ]_vars

\* an unmonitored start was discarded while the table held a Watch for the
\* same process id
C3_Witness ==
    /\ returned = "start_unmonitored"
    /\ pc = "select"
    /\ Len(admitted) = 1
    /\ admitted[1] \in DOMAIN process_watch
    /\ nEvents = 2 /\ stream_start = << >> /\ stream_end = << >>
    /\ process_watch[admitted[1]].executable = "app.exe"
    /\ ~UnderWatchedPath(config, PathOther)

\* C4: an end event whose process id is not a key of the watch table makes
\* no FinishedSession and no submission, and leaves the table and the
\* configuration unchanged; so does a second end event for a Watch already
\* removed.
C4_UnknownEndHasNoEffect ==
    [][ (EndTaken /\ Head(stream_end).ok
           /\ Head(stream_end).target_instance.process_id
                  \notin DOMAIN process_watch)
        => /\ UNCHANGED << process_watch, config, lock, attempts, sent,
                           watch, duration_seconds >>
           /\ pc' = "select"
      ]_vars

\* a Watch was removed by an end event and a second end event found nothing
C4_Witness ==
    /\ returned = "end_absent"
    /\ Len(admitted) = 1
    /\ process_watch = << >>
    /\ nEvents = 3 /\ stream_start = << >> /\ stream_end = << >>

\* C5: with the reload thread replacing the configuration concurrently,
\* every handler reads one complete snapshot: what a reader sees while it
\* holds the lock is a Config that was installed whole, and the threshold,
\* URL and secret used for one end event belong to one and the same
\* snapshot.
C5_ReadsSeeOneSnapshot ==
    /\ lock = "read" => config \in snapshots
    /\ pc = "start_watch" =>
           UnderWatchedPath(config,
                            Unwrap(event.target_instance.executable_path))
    /\ pc \in {"submit", "send"} =>
           minimum_duration = config.minimum_duration
    /\ \A k \in 1..Len(attempts) :
           \E c \in snapshots :
               /\ attempts[k].minimum_duration = c.minimum_duration
               /\ attempts[k].url = c.url
               /\ IsSome(attempts[k].secret) =>
                      Unwrap(attempts[k].secret) = c.secret
    /\ \A i \in 1..Len(sent) :
           \E c \in snapshots :
               /\ attempts[sent[i].attempt].minimum_duration
                      = c.minimum_duration
               /\ IsSome(SubmitUrl(c.url))
               /\ sent[i].url = Unwrap(SubmitUrl(c.url))
               /\ sent[i].secret = c.secret

\* the reload thread has loaded another configuration and asks for the
\* write lock while a handler is in the middle of its reads
C5_Witness ==
    /\ wpc = "write" /\ new_config # config
    /\ pc = "submit" /\ lock = "read"
    /\ minimum_duration # new_config.minimum_duration

\* C6: the configuration lock is held for a single read or a single swap
\* only: the main loop holds no read guard while a submission request is in
\* flight or a display name is being resolved, so the reload thread never
\* waits for a network call or a name lookup.
C6_NoGuardAcrossSlowWork ==
    /\ pc \in {"send", "start_watch"} => lock # "read"
    /\ ~(wpc = "write" /\ lock = "read" /\ pc \in {"send", "start_watch"})

\* the reload thread waits for the write lock while a request is in flight
C6_WriterWaitsForRequest ==
    wpc = "write" /\ lock = "read" /\ pc = "send"

\* C7: the loop ends only when both feeds are exhausted for good: it leaves
\* from the select alone, with both streams ended and empty; while a feed
\* still holds an item the loop at the select can take it, whatever the
\* state of the other feed; an Err item never ends the loop.
C7_LoopEndsOnlyWhenBothExhausted ==
    /\ [][ (pc' = "exited" /\ pc # "exited") =>
              /\ pc = "select"
              /\ startClosed /\ stream_start = << >>
              /\ endClosed /\ stream_end = << >>
              /\ UNCHANGED << stream_start, stream_end >>
         ]_vars
    /\ [](pc = "exited" =>
              startClosed /\ endClosed
                  /\ stream_start = << >> /\ stream_end = << >>)
    /\ []((pc = "select" /\ stream_start # << >>) => ENABLED PollStart)
    /\ []((pc = "select" /\ stream_end # << >>) => ENABLED PollEnd)

\* the start feed has ended, and the loop is back at the select after it
\* handled an end event that removed a Watch
C7_Witness ==
    /\ startClosed /\ stream_start = << >> /\ ~endClosed
    /\ pc = "select"
    /\ returned \in {"end_short", "end_bad_url", "end_response"}
    /\ stream_end # << >>

\* C8: an Err item of either feed is skipped: the watch table is unchanged,
\* the configuration is neither read nor changed, nothing is submitted, and
\* the loop is at the select again for the next item.
C8_FeedErrorIsSkipped ==
    [][ ((StartTaken /\ ~Head(stream_start).ok)
            \/ (EndTaken /\ ~Head(stream_end).ok))
        => /\ UNCHANGED << process_watch, config, lock, attempts, sent,
                           admitted >>
           /\ pc' = "select"
      ]_vars

\* an Err item of the end feed was skipped with a Watch in the table, and
\* the next item is waiting
C8_Witness ==
    /\ returned = "end_error"
    /\ pc = "select"
    /\ process_watch # << >>
    /\ stream_end # << >>

\* C9: a call of submit sends one request when the base URL parses and none
\* when it does not, and never a second one, whatever the response or the
\* lack of one; submit then returns to the loop; the session, whose Watch is
\* already out of the table, is not submitted again.
C9_SubmitSendsAtMostOnce ==
    /\ [](\A k \in 1..Len(attempts) :
              /\ Cardinality({ i \in 1..Len(sent) : sent[i].attempt = k })
                     = IF Len(attempts[k].url) >= 2
                            /\ attempts[k].url[1] \in {"http", "https"}
                       THEN 1 ELSE 0
              /\ \A l \in 1..Len(attempts) :
                     l # k => attempts[l].sid # attempts[k].sid
              /\ \A p \in DOMAIN process_watch :
                     process_watch[p].sid # attempts[k].sid)
    /\ [][ /\ (pc = "send" /\ pc' # "send") =>
                 pc' = "select" /\ sent' = sent /\ attempts' = attempts
           /\ (pc = "submit" /\ pc' # "submit") => pc' \in {"send", "select"}
         ]_vars

\* a request was answered, and a later end event for the same process found
\* no Watch: nothing more was sent
C9_Witness ==
    /\ Len(attempts) = 1 /\ Len(sent) = 1
    /\ returned = "end_absent"
    /\ process_watch = << >>
    /\ pc = "select"

\* the ProductName query of a pair yields a value of non-zero length
LookupSucceeds(info, p) ==
    IsSome(info.strings[p]) /\ Len(Unwrap(info.strings[p])) > 0

\* the characters of that value, without its terminator
StoredProductName(info, p) ==
    SubSeq(Unwrap(info.strings[p]), 1, Len(Unwrap(info.strings[p])) - 1)

\* C10: for a block with a translation table of N >= 1 pairs, the resolver
\* looks the declared pairs up in table order, then the six fallback pairs in
\* their order; it returns the ProductName of the first pair whose lookup
\* succeeds and performs no lookup after it, and it returns None iff the
\* lookup of every declared and every fallback pair fails.
C10_OrderedFirstMatch ==
    (IsSome(r_out) /\ IsSome(r_in.executable_path)
        /\ r_in.info.fetched /\ r_in.info.hasTable
        /\ r_in.info.table # << >>)
    => LET info == r_in.info
           order == info.table \o FALLBACK_LANG_CODES
           hits == { k \in 1..Len(order) : LookupSucceeds(info, order[k]) }
           out == Unwrap(r_out)
       IN IF hits = {}
          THEN out.name = None /\ out.lookups = order
          ELSE LET first == CHOOSE k \in hits : \A j \in hits : k <= j
               IN /\ out.name = Some(StoredProductName(info, order[first]))
                  /\ out.lookups = SubSeq(order, 1, first)

\* the result of an ordered first-match search over `order`: the name of the
\* first pair whose lookup succeeds, and the lookups up to it
FirstMatch(info, order) ==
    LET hits == { k \in 1..Len(order) : LookupSucceeds(info, order[k]) } IN
    IF hits = {} THEN [name |-> None, lookups |-> order]
    ELSE LET first == CHOOSE k \in hits : \A j \in hits : k <= j IN
         [name |-> Some(StoredProductName(info, order[first])),
          lookups |-> SubSeq(order, 1, first)]

\* C11: for a block that was fetched but has no translation table (the
\* translation query fails) or an empty one, the resolver goes on to the
\* fallback list: it returns the ProductName of the first fallback pair that
\* resolves, and None only when all six fallback lookups fail.
C11_NoTableGoesToFallback ==
    (IsSome(r_out) /\ IsSome(r_in.executable_path)
        /\ r_in.info.size /\ r_in.info.fetched
        /\ (~r_in.info.hasTable \/ r_in.info.table = << >>))
    => /\ Unwrap(r_out).name = FirstMatch(r_in.info, FALLBACK_LANG_CODES).name
       /\ (Unwrap(r_out).name = None =>
              \A k \in 1..Len(FALLBACK_LANG_CODES) :
                  ~LookupSucceeds(r_in.info, FALLBACK_LANG_CODES[k]))

\* the text `base` is a prefix of the text `path`, character by character
TextPrefix(base, path) ==
    /\ Len(base) <= Len(path)
    /\ \A k \in 1..Len(base) : path[k] = base[k]

\* C12: is_monitored(P) is true iff the components of some WatchedPath W are
\* a prefix of the components of P (P equals W or lies under it); components
\* are compared whole, so a W whose text is a prefix of P's text but ends
\* inside a component of P does not match, and an empty list monitors
\* nothing.
C12_MonitoredIffComponentPrefix ==
    IsSome(m_out) =>
        /\ Unwrap(m_out) =
              UnderWatchedPath(
                  [monitor |-> [i \in DOMAIN m_in.monitor |->
                                    Components(m_in.monitor[i])]],
                  Components(m_in.path))
        /\ (m_in.monitor = << >> => ~Unwrap(m_out))
        /\ \A i \in DOMAIN m_in.monitor :
               (/\ TextPrefix(m_in.monitor[i], m_in.path)
                /\ Len(m_in.monitor[i]) < Len(m_in.path)
                /\ m_in.monitor[i] # << >>
                /\ m_in.monitor[i][Len(m_in.monitor[i])] # Sep
                /\ m_in.path[Len(m_in.monitor[i]) + 1] # Sep
                /\ Len(m_in.monitor) = 1)
               => ~Unwrap(m_out)

\* a path was found not monitored although the text of the one WatchedPath
\* is a prefix of its text: the prefix ends inside a component
C12_Witness ==
    /\ m_out = Some(FALSE)
    /\ Len(m_in.monitor) = 1
    /\ m_in.monitor[1] = << Sep, "a" >>
    /\ m_in.path = << Sep, "a", "b" >>

\* C13: every submission attempt completes, with a response or a network
\* error, within a finite deadline: a request that was sent does not keep
\* the loop waiting forever, and a feed item that is pending while a request
\* is in flight is eventually taken by the loop.
C13_SubmissionCompletes ==
    /\ (pc = "send") ~> (pc = "select")
    /\ ( /\ pc = "send"
         /\ stream_start # << >> \/ stream_end # << >> )
       ~> ( \/ pc \in { "start_read", "end_read" }
            \/ /\ pc = "select"
               /\ returned \in { "start_error", "start_no_path",
                                 "end_error", "end_absent" } )

\* the request of call r carries what the collector's configuration asks for
Authenticated(r) ==
    \/ s_secret = None
    \/ /\ handler[r].headers # None
       /\ IsSome(to_str(Unwrap(handler[r].headers)))
       /\ Unwrap(to_str(Unwrap(handler[r].headers)))
              = as_bytes(Unwrap(s_secret))

\* C14: the POST /submit handler answers 401 iff the request is not
\* authenticated, and then has made no database access and stored nothing;
\* it answers 500 iff the request is authenticated and getting a connection,
\* resolving the process row or inserting the event row failed; it answers
\* 201 only after it inserted exactly one event row, which references the
\* resolved process id and carries the submitted duration.
C14_SubmitStatusMatchesOutcome ==
    \A r \in Reqs :
        LET h == handler[r] IN
        h.pc = "done" =>
            /\ h.status \in { 201, 401, 500 }
            /\ (h.status = 401) = ~Authenticated(r)
            /\ h.status = 401 => h.db = << >> /\ h.rows = << >>
            /\ h.status = 500 => h.rows = << >>
            /\ h.status = 201 =>
                  /\ Len(h.rows) = 1
                  /\ h.process_id # None
                  /\ events[h.rows[1]].process = Unwrap(h.process_id)
                  /\ events[h.rows[1]].duration
                         = h.payload.duration * MicrosPerSec
                  /\ \E i \in DOMAIN processes :
                         /\ processes[i].id = Unwrap(h.process_id)
                         /\ processes[i].executable = h.payload.executable

\* C15: clean_name(s) is the prefix of s that ends just before the first NUL,
\* all of s when s has no NUL: the result has no NUL, a string without a NUL
\* comes back unchanged, and cleaning a cleaned name changes nothing.
C15_CleanNameIsPrefixBeforeNul ==
    IsSome(n_out) =>
        LET s == n_in
            c == Unwrap(n_out)
        IN /\ Len(c) <= Len(s)
           /\ \A i \in 1..Len(c) : c[i] = s[i] /\ c[i] # 0
           /\ Len(c) < Len(s) => s[Len(c) + 1] = 0
           /\ (\A i \in 1..Len(s) : s[i] # 0) => c = s
           /\ clean_name(c) = c

\* a name with text after its first NUL, and a second NUL, was cut at the
\* first one
C15_Witness ==
    /\ n_out = Some(<< 65 >>)
    /\ n_in = << 65, 0, 66, 0 >>

\* C16: a Watch is removed when its process's end event is handled, whichever
\* feed the loop takes first: once the loop has consumed every notification
\* delivered, the table holds no Watch for a process whose end notification
\* was delivered after its start notification.
C16_NoWatchOutlivesItsEnd ==
    (pc = "select" /\ stream_start = << >> /\ stream_end = << >>)
    => \A p \in DOMAIN process_watch : p \in living

\* C17: a display name the resolver returns is never empty: a pair whose
\* ProductName is the empty string (the terminator alone) counts as a miss,
\* and the search goes on to the next pair.
C17_DisplayNameNeverEmpty ==
    IsSome(r_out) =>
        /\ Unwrap(r_out).name # Some(<< >>)
        /\ \A k \in 1..Len(Unwrap(r_out).lookups) :
               LET p == Unwrap(r_out).lookups[k] IN
               (/\ IsSome(r_in.info.strings[p])
                /\ Len(Unwrap(r_in.info.strings[p])) = 1)
               => k < Len(Unwrap(r_out).lookups) \/ Unwrap(r_out).name = None

\* C18: the URL of the request submit sends is the configured base URL with
\* /submit appended: scheme and host (with its port) are those of the base
\* URL, and the path is the base URL's path followed by the segment submit.
C18_SubmitUrlKeepsBasePath ==
    \A i \in 1..Len(sent) :
        LET base == attempts[sent[i].attempt].url IN
        /\ sent[i].url.scheme = base[1]
        /\ sent[i].url.host = base[2]
        /\ sent[i].url.path = SubSeq(base, 3, Len(base)) \o << "submit" >>

\* the ordinal of the last admitted start event of a process id
LastAdmission(pid) ==
    CHOOSE k \in 0..Len(admitted) :
        /\ k > 0 => admitted[k] = pid
        /\ \A j \in (k + 1)..Len(admitted) : admitted[j] # pid

\* C19: there are never more submission attempts than admitted start
\* events: a Watch is out of the table before its session is submitted, no
\* Watch is submitted twice, and a Watch that a later start event with the
\* same process id overwrote is never submitted.
C19_AttemptsAtMostAdmissions ==
    /\ [](/\ Len(attempts) <= Len(admitted)
          /\ \A k \in 1..Len(attempts) :
                 /\ attempts[k].sid \in 1..Len(admitted)
                 /\ \A l \in 1..(k - 1) : attempts[l].sid # attempts[k].sid
          /\ pc \in { "end_read", "submit", "send" } =>
                 /\ event.target_instance.process_id \notin DOMAIN process_watch
                 /\ \A k \in 1..Len(attempts) :
                        attempts[k].sid = watch.sid => pc = "send")
    /\ [][ /\ (pc = "select" /\ pc' = "end_read") =>
                 watch'.sid =
                     LastAdmission(Head(stream_end).target_instance.process_id)
           /\ Len(attempts') > Len(attempts) =>
                 /\ pc = "submit"
                 /\ attempts'[Len(attempts')].sid = watch.sid
         ]_vars

\* a start event overwrote the Watch of an earlier one with the same process
\* id, and the end event that followed led to one submission, of the later
\* Watch
C19_Witness ==
    /\ Len(admitted) = 2 /\ admitted[1] = admitted[2]
    /\ Len(attempts) = 1 /\ attempts[1].sid = 2
    /\ process_watch = << >>
    /\ pc = "select"

\* C20: with a translation table of N pairs (reported length 4 * N bytes)
\* the first loop looks up the declared pairs only: at most N lookups are
\* made before the fallback list is tried, and no pair read from past the end
\* of the table is ever looked up.
C20_FirstLoopStaysInTable ==
    (IsSome(r_out) /\ IsSome(r_in.executable_path)
        /\ r_in.info.fetched /\ r_in.info.hasTable)
    => LET N == Len(r_in.info.table)
           tried == Unwrap(r_out).lookups
       IN /\ Len(tried) <= N + Len(FALLBACK_LANG_CODES)
          /\ \A k \in 1..Len(tried) :
                 IF k <= N THEN tried[k] = r_in.info.table[k]
                 ELSE tried[k] = FALLBACK_LANG_CODES[k - N]

\* a step of the configuration watcher's callback
ReloadStep ==
    \/ nReloads' # nReloads
    \/ wpc' # wpc
    \/ new_config' # new_config
    \/ config' # config

\* C21: replacing the configuration never touches the watch table (a Watch
\* admitted under an earlier snapshot stays in it, monitored or not), and an
\* end event is judged against the minimum duration, the URL and the secret
\* of the snapshot that is current when the end event is handled.
C21_ReplaceLeavesTableEndUsesCurrent ==
    [][ /\ ReloadStep =>
               /\ process_watch' = process_watch
               /\ watch' = watch /\ minimum_duration' = minimum_duration
               /\ attempts' = attempts /\ sent' = sent
        /\ (pc = "end_read" /\ pc' # "end_read") =>
               /\ config \in snapshots
               /\ (pc' = "submit") <=>
                      ~(duration_seconds < config.minimum_duration)
        /\ Len(attempts') > Len(attempts) =>
               /\ config \in snapshots
               /\ attempts'[Len(attempts')].minimum_duration =
                      config.minimum_duration
               /\ ~(attempts'[Len(attempts')].submission.duration
                      < config.minimum_duration)
               /\ attempts'[Len(attempts')].url = config.url
        /\ Len(sent') > Len(sent) =>
               sent'[Len(sent')].secret = config.secret
      ]_vars

\* a Watch of C:\Other\app.exe, a path only the second configuration
\* monitors, outlived the replacement of that configuration by the first,
\* and its end was judged and sent with the first one's threshold, URL and
\* secret
C21_Witness ==
    /\ nReloads = 1 /\ wpc = "idle"
    /\ ~is_monitored(config, PathOther)
    /\ Len(attempts) = 1 /\ Len(sent) = 1
    /\ attempts[1].submission.executable = "other.exe"
    /\ attempts[1].minimum_duration = config.minimum_duration
    /\ attempts[1].minimum_duration = 1
    /\ attempts[1].url = config.url
    /\ sent[1].secret = config.secret /\ IsSome(sent[1].secret)

\* C22: a notification that is an error, or whose file cannot be loaded,
\* leaves the snapshot and the lock as they are, so the main loop goes on
\* with the last configuration that was loaded; the write lock is taken and
\* the snapshot changes only after a successful load, and the store ends
\* with the whole of the loaded configuration in place.
C22_FailedLoadKeepsSnapshot ==
    /\ [][ /\ (nReloads' # nReloads /\ notified' # "loaded") =>
                  /\ config' = config /\ lock' = lock
                  /\ snapshots' = snapshots
                  /\ wpc' = "idle"
           /\ (lock' = "write" /\ lock # "write") => notified = "loaded"
           /\ config' # config => (notified = "loaded" /\ lock = "write")
           /\ (wpc # "idle" /\ wpc' = "idle") =>
                  /\ config' = new_config
                  /\ config' \in Configs
                  /\ lock' = "free"
         ]_vars
    /\ [](notified # "loaded" =>
              /\ config \in snapshots
              /\ lock # "write" /\ wpc = "idle")

\* the file could not be loaded: no configuration but the one main started
\* with was ever in place, and the handler of an end event holds a read
\* guard on it
C22_Witness ==
    /\ notified = "load_failed" /\ nReloads = 1
    /\ snapshots = {config}
    /\ pc = "submit" /\ lock = "read"
    /\ minimum_duration = config.minimum_duration

\* C23: the collector authenticates a request iff no secret is configured on
\* it, or the request has an X-Secret-Key header whose value is text equal to
\* the configured secret; so a request built by a client whose snapshot has
\* the collector's secret is authenticated, and one built by a client with
\* no secret or another secret is rejected when the collector has a secret.
C23_AuthenticatedIffSecretMatches ==
    \A r \in Reqs :
        LET h == handler[r]
            accepted == h.status # 401
        IN h.pc \notin { "idle", "auth" } =>
            /\ accepted <=>
                  \/ s_secret = None
                  \/ /\ h.headers # None
                     /\ IsSome(to_str(Unwrap(h.headers)))
                     /\ Unwrap(to_str(Unwrap(h.headers)))
                            = as_bytes(Unwrap(s_secret))
            /\ \A c \in ClientSecrets :
                   h.headers = ClientHeader(c) =>
                       /\ c = s_secret => accepted
                       /\ (s_secret # None /\ c # s_secret) => ~accepted

\* C24: process rows are deduplicated under concurrency: calls of get_process
\* that succeeded for the same executable and the same cleaned name (an
\* absent name included) hold the same process id, and table processes has
\* at most one row for an (executable, name) pair.
C24_ProcessRowsDeduplicated ==
    /\ \A r1, r2 \in Reqs :
           LET h1 == handler[r1]
               h2 == handler[r2]
           IN (/\ h1.process_id # None /\ h2.process_id # None
               /\ h1.payload.executable = h2.payload.executable
               /\ ProcessName(h1.payload) = ProcessName(h2.payload))
              => h1.process_id = h2.process_id
    /\ \A i, j \in DOMAIN processes :
           (/\ processes[i].executable = processes[j].executable
            /\ processes[i].name = processes[j].name)
           => i = j

====
